---- MODULE Spec2Model ----
(***************************************************************************)
(* Model of the Streamlit dashboard in main.py: the cached loader          *)
(* load_data() and the script main(), which is re-run from the top on      *)
(* every interaction with a sidebar control.  One run of main() is a       *)
(* render cycle; pc is the position of the script inside the cycle.        *)
(*                                                                         *)
(* A data frame is modelled by its pandas index: a sequence of row labels  *)
(* 1..n into the loaded table, in table order.  Boolean-mask indexing      *)
(* df[mask] keeps the labels whose row satisfies the mask.                 *)
(***************************************************************************)
EXTENDS Integers, Sequences, FiniteSets, TLC

\* ---- bounds of the exploration -------------------------------------
MaxRows == 3        \* rows of the spreadsheet
MaxReads == 2       \* read_excel calls explored in one session
MaxOrderRows == 2   \* rows of the spreadsheet where the 24 filter orders are compared

\* ---- values of the data ---------------------------------------------
BothCountries == "Israel and Palestine"

country_options == <<"Palestine", "Israel", BothCountries>>

None == "None"

\* The values a row can hold, each column in a fixed order.  The data may
\* hold rows of a country that no option selects.  The years are two of
\* 2016-2024 with a year between them that has no row.
CountryValues == <<"Israel", "Palestine", "Lebanon">>

YearValues == <<2016, 2018>>

DisorderValues == <<"Political violence", "Demonstrations">>

EventValues == <<"Riots", "Protests">>

\* The row values are ranked 0 .. NumRowValues - 1.  Every mask tests one
\* row at a time and the views keep the table order; the order of the rows
\* decides nothing else but the tie-break of value_counts().idxmax(), which
\* is a free choice below.  So one order per multiset of rows is explored.
NumRowValues ==
    Len(CountryValues) * Len(YearValues) * Len(DisorderValues) * Len(EventValues)

RowOfRank(k) ==
    LET e == k % Len(EventValues)
        d == (k \div Len(EventValues)) % Len(DisorderValues)
        y == (k \div (Len(EventValues) * Len(DisorderValues))) % Len(YearValues)
        c == k \div (Len(EventValues) * Len(DisorderValues) * Len(YearValues))
    IN  [country |-> CountryValues[c + 1], year |-> YearValues[y + 1],
         disorder_type |-> DisorderValues[d + 1], event_type |-> EventValues[e + 1]]

FileStatuses == {"ok", "missing", "no_openpyxl", "unreadable"}

\* ---- state ------------------------------------------------------------
VARIABLES
    fileStatus,        \* what pd.read_excel("Israel-Palestine.xlsx") meets
    fileTable,         \* the rows of the spreadsheet
    cache,             \* st.cache_data entry of load_data()
    fileReads,         \* read_excel calls of the session
    pc,                \* position of the script in the current cycle
    exception,         \* how the current cycle ended, "none" while running
    rendered,          \* elements the current cycle has put on the page
    df,                \* the local df of main()
    selected_country,
    selected_years,
    disorder_options,
    event_options,
    disorder_types,
    event_types,
    stats

vars == <<fileStatus, fileTable, cache, fileReads, pc, exception,
          rendered, df, selected_country, selected_years,
          disorder_options, event_options, disorder_types, event_types, stats>>

env == <<fileStatus, fileTable>>

controls == <<selected_country, selected_years, disorder_options,
              event_options, disorder_types, event_types>>

NoCache == [hit |-> FALSE, value |-> <<>>]

NoYears == <<0, 0>>

NoStats ==
    [total_events |-> 0, unique_event_types |-> 0, unique_disorder_types |-> 0,
     average_events_per_year |-> <<0, 1>>, most_frequent_event_type |-> None]

\* ---- pandas helpers ------------------------------------------------------
\* the index of a freshly loaded frame
FullIndex(table) == [i \in 1..Len(table) |-> i]

Labels(frame) == { frame[k] : k \in 1..Len(frame) }

\* df[col].unique()
Unique(frame, col) == { cache.value[frame[k]][col] : k \in 1..Len(frame) }

RECURSIVE SortedSeq(_)
\* sorted(S) for a set of integers
SortedSeq(S) ==
    IF S = {} THEN <<>>
    ELSE LET m == CHOOSE x \in S : \A y \in S : x <= y
         IN <<m>> \o SortedSeq(S \ {m})

\* df[col].value_counts()
ValueCounts(frame, col) ==
    [v \in Unique(frame, col) |->
        Cardinality({ k \in 1..Len(frame) : cache.value[frame[k]][col] = v })]

\* idxmin() in the place of idxmax()
IdxMin(counts) ==
    { v \in DOMAIN counts : \A w \in DOMAIN counts : counts[v] <= counts[w] }

\* the labels value_counts().idxmax() can return
IdxMax(counts) ==
    { v \in DOMAIN counts : \A w \in DOMAIN counts : counts[v] >= counts[w] }

\* ---- the masks of main() ---------------------------------------------------
\* "Israel and Palestine" applying no country mask at all
CountryMask_BothKeepsAll(row, sel) ==
    IF sel = BothCountries THEN TRUE ELSE row.country = sel

CountryMask(row, sel) ==
    IF sel = BothCountries
    THEN row.country \in {"Palestine", "Israel"}
    ELSE row.country = sel

\* the upper bound of the slider taken as exclusive
YearMask_Exclusive(row, years) == row.year >= years[1] /\ row.year < years[2]

YearMask(row, years) == row.year >= years[1] /\ row.year <= years[2]

\* | in the place of & between the two isin() masks
TypeMask_Or(row, ds, es) == row.disorder_type \in ds \/ row.event_type \in es

TypeMask(row, ds, es) == row.disorder_type \in ds /\ row.event_type \in es

FilterCountry(frame, sel) ==
    LET keep(i) == CountryMask(cache.value[i], sel) IN SelectSeq(frame, keep)

FilterYears(frame, years) ==
    LET keep(i) == YearMask(cache.value[i], years) IN SelectSeq(frame, keep)

FilterTypes(frame, ds, es) ==
    LET keep(i) == TypeMask(cache.value[i], ds, es) IN SelectSeq(frame, keep)

\* options= and default= of the two multiselects
DisorderOptions(frame) == Unique(frame, "disorder_type")

\* the event types of the whole loaded table
EventOptions_WholeTable(frame) ==
    Unique(FullIndex(cache.value), "event_type")

EventOptions(frame) == Unique(frame, "event_type")

\* ---- the statistics of main() ------------------------------------------------
\* total_events / (hi - lo + 1) if total_events > 0 else 0, as the exact
\* fraction <<numerator, denominator>>
\* hi - lo in the place of hi - lo + 1
AverageEventsPerYear_NoPlusOne(total_events, years) ==
    IF total_events > 0
    THEN <<total_events, years[2] - years[1]>>
    ELSE <<0, 1>>

AverageEventsPerYear(total_events, years) ==
    IF total_events > 0
    THEN <<total_events, years[2] - years[1] + 1>>
    ELSE <<0, 1>>

MostFrequentEventType(frame) ==
    IF Len(frame) > 0 THEN IdxMax(ValueCounts(frame, "event_type")) ELSE {None}

RECURSIVE IsTable(_, _, _)
\* fileTable is rows followed by n more rows, of ranks from lo up and in
\* non-decreasing order of rank
IsTable(rows, n, lo) ==
    IF n = 0
    THEN fileTable = rows
    ELSE \E k \in lo..(NumRowValues - 1) :
            IsTable(Append(rows, RowOfRank(k)), n - 1, k)

\* ---- initial state ---------------------------------------------------------------
Init ==
    /\ fileStatus \in FileStatuses
    /\ IF fileStatus = "ok"
       THEN \E n \in 0..MaxRows : IsTable(<<>>, n, 0)
       ELSE fileTable = <<>>
    /\ cache = NoCache
    /\ fileReads = 0
    /\ pc = "idle"
    /\ exception = "none"
    /\ rendered = {}
    /\ df = <<>>
    /\ selected_country = ""
    /\ selected_years = NoYears
    /\ disorder_options = {}
    /\ event_options = {}
    /\ disorder_types = {}
    /\ event_types = {}
    /\ stats = NoStats

\* ---- one render cycle ----------------------------------------------------------------
\* A control is touched (or the page is opened): the script starts over.
Rerun ==
    /\ pc \in {"idle", "done", "stopped", "crashed"}
    /\ cache.hit \/ fileReads < MaxReads
    /\ pc' = "load"
    /\ exception' = "none"
    /\ rendered' = {"title"}
    /\ df' = <<>>
    /\ selected_country' = ""
    /\ selected_years' = NoYears
    /\ disorder_options' = {}
    /\ event_options' = {}
    /\ disorder_types' = {}
    /\ event_types' = {}
    /\ stats' = NoStats
    /\ UNCHANGED <<env, cache, fileReads>>

\* load_data() without @st.cache_data: the file is read on every run
LoadCached_Reread ==
    /\ pc = "load"
    /\ cache.hit
    /\ fileReads' = fileReads + 1
    /\ cache' = [hit |-> TRUE, value |-> fileTable]
    /\ df' = FullIndex(fileTable)
    /\ pc' = "country"
    /\ UNCHANGED <<env, exception, rendered, controls, stats>>

\* load_data() finds its result in the cache
LoadCached ==
    /\ pc = "load"
    /\ cache.hit
    /\ df' = FullIndex(cache.value)
    /\ pc' = "country"
    /\ UNCHANGED <<env, cache, fileReads, exception, rendered,
                   controls, stats>>

\* load_data() runs and read_excel succeeds
LoadRead ==
    /\ pc = "load"
    /\ ~cache.hit
    /\ fileStatus = "ok"
    /\ fileReads' = fileReads + 1
    /\ cache' = [hit |-> TRUE, value |-> fileTable]
    /\ df' = FullIndex(fileTable)
    /\ pc' = "country"
    /\ UNCHANGED <<env, exception, rendered, controls, stats>>

\* except ImportError: st.error(...); st.stop()
LoadImportError ==
    /\ pc = "load"
    /\ ~cache.hit
    /\ fileStatus = "no_openpyxl"
    /\ fileReads' = fileReads + 1
    /\ rendered' = rendered \cup {"error: openpyxl"}
    /\ exception' = "StopException"
    /\ pc' = "stopped"
    /\ UNCHANGED <<env, cache, df, controls, stats>>

\* except FileNotFoundError without st.stop(): load_data() returns and
\* main() goes on with an empty frame
LoadFileNotFound_NoStop ==
    /\ pc = "load"
    /\ ~cache.hit
    /\ fileStatus = "missing"
    /\ fileReads' = fileReads + 1
    /\ rendered' = rendered \cup {"error: not found"}
    /\ df' = <<>>
    /\ pc' = "country"
    /\ UNCHANGED <<env, cache, exception, controls, stats>>

\* except FileNotFoundError: st.error(...); st.stop()
LoadFileNotFound ==
    /\ pc = "load"
    /\ ~cache.hit
    /\ fileStatus = "missing"
    /\ fileReads' = fileReads + 1
    /\ rendered' = rendered \cup {"error: not found"}
    /\ exception' = "StopException"
    /\ pc' = "stopped"
    /\ UNCHANGED <<env, cache, df, controls, stats>>

\* read_excel raises something that is neither ImportError nor
\* FileNotFoundError; no except clause matches and it leaves main()
LoadUnreadable ==
    /\ pc = "load"
    /\ ~cache.hit
    /\ fileStatus = "unreadable"
    /\ fileReads' = fileReads + 1
    /\ rendered' = rendered \cup {"traceback"}
    /\ exception' = "ValueError"
    /\ pc' = "crashed"
    /\ UNCHANGED <<env, cache, df, controls, stats>>

\* the country selectbox and the country mask
SelectCountry ==
    /\ pc = "country"
    /\ \E k \in 1..Len(country_options) :
          /\ selected_country' = country_options[k]
          /\ df' = FilterCountry(df, country_options[k])
    /\ rendered' = rendered \cup {"selectbox: country"}
    /\ pc' = "year"
    /\ UNCHANGED <<env, cache, fileReads, exception,
                   selected_years, disorder_options, event_options,
                   disorder_types, event_types, stats>>

\* years[0] on an empty list
SelectYearsIndexError ==
    /\ pc = "year"
    /\ SortedSeq(Unique(df, "year")) = <<>>
    /\ rendered' = rendered \cup {"traceback"}
    /\ exception' = "IndexError"
    /\ pc' = "crashed"
    /\ UNCHANGED <<env, cache, fileReads, df, controls, stats>>

\* the year slider and the year mask; the slider returns a pair lo <= hi
\* inside [years[0], years[-1]], also when the two are the same year
SelectYears ==
    /\ pc = "year"
    /\ LET years == SortedSeq(Unique(df, "year")) IN
          /\ years # <<>>
          /\ \E lo \in years[1]..years[Len(years)] :
             \E hi \in lo..years[Len(years)] :
                /\ selected_years' = <<lo, hi>>
                /\ df' = FilterYears(df, <<lo, hi>>)
    /\ rendered' = rendered \cup {"slider: years"}
    /\ pc' = "types"
    /\ UNCHANGED <<env, cache, fileReads, exception,
                   selected_country, disorder_options, event_options,
                   disorder_types, event_types, stats>>

\* the two multiselects and the type mask
SelectTypes ==
    /\ pc = "types"
    /\ disorder_options' = DisorderOptions(df)
    /\ event_options' = EventOptions(df)
    /\ \E ds \in SUBSET DisorderOptions(df) :
       \E es \in SUBSET EventOptions(df) :
          /\ disorder_types' = ds
          /\ event_types' = es
          /\ df' = FilterTypes(df, ds, es)
    /\ rendered' = rendered \cup {"multiselect: disorder", "multiselect: event"}
    /\ pc' = "stats"
    /\ UNCHANGED <<env, cache, fileReads, exception,
                   selected_country, selected_years, stats>>

\* "Calculate statistics", then the metrics, visualize_data(df) and
\* st.dataframe(df)
StatisticsAndDisplay ==
    /\ pc = "stats"
    /\ \E mf \in MostFrequentEventType(df) :
          stats' =
            [total_events |-> Len(df),
             unique_event_types |-> Cardinality(Unique(df, "event_type")),
             unique_disorder_types |-> Cardinality(Unique(df, "disorder_type")),
             average_events_per_year |-> AverageEventsPerYear(Len(df), selected_years),
             most_frequent_event_type |-> mf]
    /\ rendered' = rendered \cup {"metrics", "charts", "dataframe"}
    /\ pc' = "done"
    /\ UNCHANGED <<env, cache, fileReads, exception, df, controls>>

Next ==
    \/ Rerun
    \/ LoadCached
    \/ LoadRead
    \/ LoadImportError
    \/ LoadFileNotFound
    \/ LoadUnreadable
    \/ SelectCountry
    \/ SelectYearsIndexError
    \/ SelectYears
    \/ SelectTypes
    \/ StatisticsAndDisplay

Spec == Init /\ [][Next]_vars

\* The same program on the spreadsheets of at most MaxOrderRows rows.  The
\* masks are per-row tests, so the orders of the filters are compared there.
InitOrders == Init /\ Len(fileTable) <= MaxOrderRows

SpecOrders == InitOrders /\ [][Next]_vars

\* ---- the properties ------------------------------------------------------------
\* The predicates of the four filters, stated on the rows of the loaded
\* table and the values of the controls.
CountryOK(i) ==
    \/ selected_country = BothCountries
       /\ (cache.value[i].country = "Israel" \/ cache.value[i].country = "Palestine")
    \/ selected_country # BothCountries
       /\ cache.value[i].country = selected_country

YearOK(i) ==
    selected_years[1] <= cache.value[i].year /\ cache.value[i].year <= selected_years[2]

DisorderOK(i) == cache.value[i].disorder_type \in disorder_types

EventOK(i) == cache.value[i].event_type \in event_types

AllFourOK(i) == CountryOK(i) /\ YearOK(i) /\ DisorderOK(i) /\ EventOK(i)

LoadedRows == 1..Len(cache.value)

NoDuplicates(frame) == Cardinality(Labels(frame)) = Len(frame)

\* the four predicates as masks over the loaded rows
Masks ==
    <<[i \in LoadedRows |-> CountryOK(i)], [i \in LoadedRows |-> YearOK(i)],
      [i \in LoadedRows |-> DisorderOK(i)], [i \in LoadedRows |-> EventOK(i)]>>

\* the 24 orders of the four filters
Orders ==
    {
      <<1, 2, 3, 4>>, <<1, 2, 4, 3>>, <<1, 3, 2, 4>>, <<1, 3, 4, 2>>,
      <<1, 4, 2, 3>>, <<1, 4, 3, 2>>, <<2, 1, 3, 4>>, <<2, 1, 4, 3>>,
      <<2, 3, 1, 4>>, <<2, 3, 4, 1>>, <<2, 4, 1, 3>>, <<2, 4, 3, 1>>,
      <<3, 1, 2, 4>>, <<3, 1, 4, 2>>, <<3, 2, 1, 4>>, <<3, 2, 4, 1>>,
      <<3, 4, 1, 2>>, <<3, 4, 2, 1>>, <<4, 1, 2, 3>>, <<4, 1, 3, 2>>,
      <<4, 2, 1, 3>>, <<4, 2, 3, 1>>, <<4, 3, 1, 2>>, <<4, 3, 2, 1>>
    }

\* the rows left by the four single-predicate filters applied in the order p
InOrder(p, m) ==
    LET s1 == { i \in LoadedRows : m[p[1]][i] }
        s2 == { i \in s1 : m[p[2]][i] }
        s3 == { i \in s2 : m[p[3]][i] }
    IN  { i \in s3 : m[p[4]][i] }

\* C1: once the three filter steps of main() have run, df holds exactly the
\* loaded rows that satisfy all four predicates (each once, in table order),
\* total_events is their number, and the four single-predicate filters
\* applied one after another in any of the 24 orders give the same frame.
C1_FilterIsConjunction ==
    pc \in {"stats", "done"} =>
        /\ df = SelectSeq(FullIndex(cache.value), AllFourOK)
        /\ pc = "done" =>
              stats.total_events = Cardinality({ i \in LoadedRows : AllFourOK(i) })
        /\ LET m == Masks IN \A p \in Orders : InOrder(p, m) = Labels(df)

\* one row is kept and one is dropped by the disorder-type predicate alone
C1_Witness ==
    /\ pc = "done"
    /\ stats.total_events = 1
    /\ \E i \in LoadedRows : CountryOK(i) /\ YearOK(i) /\ ~DisorderOK(i) /\ EventOK(i)

DashboardElements ==
    {"selectbox: country", "slider: years", "multiselect: disorder",
     "multiselect: event", "metrics", "charts", "dataframe"}

ErrorMessage(status) ==
    IF status = "missing" THEN "error: not found" ELSE "error: openpyxl"

\* C2: when pd.read_excel fails with FileNotFoundError or ImportError the
\* cycle ends stopped, with the error message of that kind on the page and
\* no filter control, statistic, chart or data table; the failing call reads
\* the file once and nothing reads it again before the next rerun.
C2_LoadFailureHalts ==
    /\ [](fileStatus \in {"missing", "no_openpyxl"} =>
            /\ pc \in {"idle", "load", "stopped"}
            /\ pc = "stopped" =>
                  /\ exception = "StopException"
                  /\ ErrorMessage(fileStatus) \in rendered
                  /\ rendered \cap DashboardElements = {})
    /\ [][/\ pc = "load" => fileReads' <= fileReads + 1
          /\ pc = "stopped" => fileReads' = fileReads /\ pc' = "load"]_vars

C2_Witness ==
    /\ pc = "stopped"
    /\ fileStatus = "missing"
    /\ "error: not found" \in rendered
    /\ fileReads = 2

\* C3: with the file absent or in an unreadable format, load_data() ends in
\* the user-facing error (message shown, cycle stopped), never in an
\* exception that leaves main().
C3_AbsentOrUnreadableIsUserError ==
    fileStatus \in {"missing", "unreadable"} =>
        /\ pc \in {"idle", "load", "stopped"}
        /\ exception \in {"none", "StopException"}
        /\ pc = "stopped" => \E m \in rendered : m \in {"error: not found", "error: openpyxl"}

\* C4: once load_data() has succeeded, the file has been read exactly once
\* in the session, the cached rows are the rows read, every later cycle
\* starts its filters from the whole cached table, and the view it ends
\* with is decided by the cached table and the current control values.
C4_LoadedOnceAndReused ==
    cache.hit =>
        /\ fileReads = 1
        /\ cache.value = fileTable
        /\ pc = "country" => df = FullIndex(fileTable)
        /\ pc = "done" =>
              Labels(df) = { i \in 1..Len(fileTable) : AllFourOK(i) }

\* a later interaction starts a new cycle and finds the cache filled
C4_Witness ==
    /\ pc = "load"
    /\ cache.hit
    /\ fileReads = 1
    /\ Len(cache.value) >= 2

\* C5: after a successful load no cycle raises an error, whatever the
\* controls select, and an empty view is reported as total_events = 0.
C5_NoErrorAfterLoad ==
    cache.hit =>
        /\ exception = "none"
        /\ pc # "crashed"
        /\ (pc = "done" /\ df = <<>>) => stats.total_events = 0

\* C6: with "Israel and Palestine" selected, the country filter leaves
\* exactly the rows that selecting "Israel" keeps together with the rows
\* that selecting "Palestine" keeps, each once, and no row of another country.
C6_BothIsUnion ==
    (pc = "year" /\ selected_country = BothCountries) =>
        /\ Labels(df) = { i \in LoadedRows : cache.value[i].country = "Israel" }
                        \cup { i \in LoadedRows : cache.value[i].country = "Palestine" }
        /\ NoDuplicates(df)
        /\ \A k \in 1..Len(df) : cache.value[df[k]].country \in {"Israel", "Palestine"}

C6_Witness ==
    /\ pc = "year"
    /\ selected_country = BothCountries
    /\ Len(df) = 2
    /\ \E i, j \in Labels(df) :
          cache.value[i].country = "Israel" /\ cache.value[j].country = "Palestine"
    /\ \E i \in LoadedRows : cache.value[i].country = "Lebanon"

\* C7: after the year filter every row of df has lo <= year <= hi, and every
\* row that passed the country filter with a year in [lo, hi] is still in df.
C7_YearRangeInclusive ==
    /\ pc \in {"types", "done"} =>
          /\ selected_years[1] <= selected_years[2]
          /\ \A k \in 1..Len(df) :
                /\ selected_years[1] <= cache.value[df[k]].year
                /\ cache.value[df[k]].year <= selected_years[2]
    /\ pc = "types" =>
          \A i \in LoadedRows :
             (/\ CountryOK(i)
              /\ selected_years[1] <= cache.value[i].year
              /\ cache.value[i].year <= selected_years[2]) => i \in Labels(df)

\* a row on each bound is kept
C7_Witness ==
    /\ pc = "types"
    /\ selected_years[1] < selected_years[2]
    /\ \E i, j \in Labels(df) :
          /\ cache.value[i].year = selected_years[1]
          /\ cache.value[j].year = selected_years[2]

\* C8: when the type filter has run, the options and defaults of the two multiselects are the disorder
\* types and the event types of the rows that passed the country and year
\* filters, and with both selections equal to them the type filter keeps
\* every one of those rows.
C8_DefaultsFollowUpstreamFilters ==
    pc = "stats" =>
        LET upstream == { i \in LoadedRows : CountryOK(i) /\ YearOK(i) } IN
        /\ disorder_options = { cache.value[i].disorder_type : i \in upstream }
        /\ event_options = { cache.value[i].event_type : i \in upstream }
        /\ (disorder_types = disorder_options /\ event_types = event_options) =>
              Labels(df) = upstream

\* the defaults are narrower than the values of the whole table
C8_Witness ==
    /\ pc = "stats"
    /\ disorder_types = disorder_options
    /\ event_types = event_options
    /\ Len(df) >= 1
    /\ \E i \in LoadedRows : cache.value[i].event_type \notin event_options
    /\ \E i \in LoadedRows : cache.value[i].disorder_type \notin disorder_options

EventCount(e) ==
    Cardinality({ k \in 1..Len(df) : cache.value[df[k]].event_type = e })

\* C9: most_frequent_event_type is None when total_events is 0; otherwise it
\* is an event type of a row of df and no event type has more rows in df.
C9_MostFrequentEventType ==
    pc = "done" =>
        IF stats.total_events = 0
        THEN stats.most_frequent_event_type = None
        ELSE /\ EventCount(stats.most_frequent_event_type) >= 1
             /\ \A i \in LoadedRows :
                   EventCount(stats.most_frequent_event_type)
                      >= EventCount(cache.value[i].event_type)

\* another event type is in the view, with fewer rows
C9_Witness ==
    /\ pc = "done"
    /\ \E i \in LoadedRows :
          /\ EventCount(cache.value[i].event_type) >= 1
          /\ EventCount(cache.value[i].event_type)
                < EventCount(stats.most_frequent_event_type)

\* C10: average_events_per_year is 0 when total_events is 0; otherwise it is
\* total_events over hi - lo + 1; and hi - lo + 1 is at least 1 for every
\* range the slider returns.
C10_AverageEventsPerYear ==
    /\ pc \in {"types", "stats", "done"} =>
          selected_years[2] - selected_years[1] + 1 >= 1
    /\ pc = "done" =>
          /\ stats.average_events_per_year[2] >= 1
          /\ stats.total_events = 0 => stats.average_events_per_year[1] = 0
          /\ stats.total_events > 0 =>
                stats.average_events_per_year =
                   <<stats.total_events, selected_years[2] - selected_years[1] + 1>>

\* two events over the three years 2016..2018
C10_Witness ==
    /\ pc = "done"
    /\ stats.average_events_per_year = <<2, 3>>

====
